---- MODULE Spec2Model ----
(***************************************************************************)
(* A model of unishell: the session call operator (AbstractShell.__call__), *)
(* the SSH backend's command protocol (SecureShell.execute_command: two     *)
(* stream readers and one exit-status watcher feeding one queue), and the   *)
(* tool and OS probes of AbstractShell.                                     *)
(*                                                                          *)
(* Python values that may be None are sequences of length at most one:      *)
(* <<>> is None and <<v>> is the value v.  Python strings are sequences of  *)
(* text tokens.                                                             *)
(***************************************************************************)
EXTENDS Integers, Sequences, FiniteSets, TLC

\* ---------------------------------------------------------------- bounds
\* Most lines the remote command writes to its stdout.
MaxOut == 2
\* Most lines the remote command writes to its stderr.
MaxErr == 1

\* ------------------------------------------------------------- input sets
None == <<>>
Some(v) == <<v>>

\* Exit statuses the remote command may end with.
ExitCodes == {0, 44}
\* Keyword arguments check_xc / wait of a call: None, True or False.
OptBool == {None, Some(TRUE), Some(FALSE)}
\* Ordered mappings (Python dict): sequences of <<name, value>> pairs.
\* The session's environment at construction (**kwargs of __init__).
SessionEnvs == {<< <<"FOO", "a">> >>}
\* The check_xc and wait given at construction: the defaults of __init__
\* (False, True) and their opposite.
SessionFlags == {<<FALSE, TRUE>>, <<TRUE, FALSE>>}
\* What a caller passes to a call: command text, cwd, environment overrides.
CallArgs ==
    { [cmd |-> "ls", cwd |-> None, kwargs |-> <<>>],
      [cmd |-> "exit 44", cwd |-> Some("/tmp"), kwargs |-> << <<"FOO", "b">> >>] }

VARIABLES
    \* --- the session (AbstractShell / SecureShell fields)
    selfEnv,      \* the session as a dict: its default environment
    defCheckXc,   \* self._check_xc
    defWait,      \* self._wait
    transport,    \* self._client.get_transport() is not None
    \* --- the call in progress
    pc,           \* where the caller is: idle, check, returned, raised, failed, waiting, waited
    cmd,          \* the caller's command text
    checkXc,      \* effective check_xc of the call
    waitFlag,     \* effective wait of the call
    sent,         \* the text given to chan.exec_command (tokens), None before
    err,          \* the exception the call raised
    \* --- the channel of the command (remote side)
    outSent,      \* lines the remote command has written to stdout
    errSent,      \* lines the remote command has written to stderr
    exited,       \* the exit status of the command has arrived
    xc,           \* that exit status
    \* --- the threads started by execute_command
    rdOut,        \* StandardStreamReader of stdout: none, running, done
    rdErr,        \* StandardStreamReader of stderr
    outRead,      \* stdout lines the reader has taken from the channel
    errRead,      \* stderr lines the reader has taken from the channel
    wpc,          \* post_process_exit_code: none, recv, end, done
    \* --- the queue and the result
    queue,        \* every record put on the command's queue, in put order
    consumed,     \* how many of them the result has taken
    result,       \* the ShellResult has been constructed
    resOut,       \* its accumulated stdout lines
    resErr,       \* its accumulated stderr lines
    resXc,        \* its exit code, None until the exit-code record is taken
    resolved,     \* it has taken the end record
    \* --- tool and OS probes
    present,      \* executables installed on the target
    availableCommands,  \* self._available_commands
    osType,       \* self._os_type
    lastOp,       \* the last probe operation and how it ended
    firstReturned, \* per first candidate name, what the first get_command that returned gave
    unameRan,     \* execute_command("uname -s") has been called on the session
    \* --- the call in progress, what was given and passed on
    passedEnv,    \* the env given to execute_command, None before
    callKw,       \* the environment overrides of the call
    callCwd,      \* the cwd of the call
    chanOpen,     \* transport.open_session() has been called
    prevKw,       \* the environment overrides of the call before
    expectedEnv,  \* the entries given at construction or assigned by the caller
    \* --- construction by the Shell factory
    uri,          \* the URI given to Shell(), None when none is given
    sessionType,  \* the class of the session built: none before
    factoryErr,   \* what Shell() raised: none when it has not
    \* --- files and transfers
    localSrc,     \* mode bits of the local file that push sends
    remoteSrc,    \* mode bits of the remote file that pull fetches
    localDst,     \* the local file pull writes: None, or its mode bits
    remoteDst,    \* the remote file push writes: None, or its mode bits
    xfer,         \* the last transfer or permission operation and how it ended
    \* --- commands dispatched side by side, per command
    queues,       \* the queue created by the command's execute_command
    threads,      \* the command's two readers and its watcher
    results       \* the command's result: its queue and what it was delivered

sessionVars == <<selfEnv, defCheckXc, defWait, transport>>
callVars == <<pc, cmd, checkXc, waitFlag, sent, err>>
chanVars == <<outSent, errSent, exited, xc>>
threadVars == <<rdOut, rdErr, outRead, errRead, wpc>>
resultVars == <<queue, consumed, result, resOut, resErr, resXc, resolved>>
probeVars == <<present, availableCommands, osType, lastOp, firstReturned>>
callXVars == <<passedEnv, callKw, callCwd, chanOpen, prevKw>>
factoryVars == <<uri, sessionType, factoryErr>>
xferVars == <<localSrc, remoteSrc, localDst, remoteDst, xfer>>
twoVars == <<queues, threads, results>>
moreVars == <<unameRan, callXVars, expectedEnv, factoryVars, xferVars, twoVars>>
vars == <<sessionVars, callVars, chanVars, threadVars, resultVars, probeVars, moreVars>>

\* ------------------------------------------------------ Python helpers
\* dict.update: an existing key keeps its place and takes the new value, a
\* new key is appended.
HasKey(d, k) == \E i \in 1..Len(d) : d[i][1] = k

\* d[k] for a key of d.
GetItem(d, k) == d[CHOOSE i \in 1..Len(d) : d[i][1] = k][2]

SetItem(d, k, v) ==
    IF HasKey(d, k)
    THEN [i \in 1..Len(d) |-> IF d[i][1] = k THEN <<k, v>> ELSE d[i]]
    ELSE Append(d, <<k, v>>)

RECURSIVE Update(_, _)
Update(d, other) ==
    IF other = <<>> THEN d
    ELSE Update(SetItem(d, other[1][1], other[1][2]), Tail(other))

\* str(n) for n >= 0: its decimal digits.
DigitChars == <<"0", "1", "2", "3", "4", "5", "6", "7", "8", "9">>

RECURSIVE Str(_)
Str(n) ==
    IF n < 10 THEN <<DigitChars[n + 1]>>
    ELSE Str(n \div 10) \o <<DigitChars[(n % 10) + 1]>>

\* Python values of differing type: an int or a str.
PyInt(n) == [type |-> "int", val |-> <<n>>]
PyStr(s) == [type |-> "str", val |-> s]
PyEq(a, b) == a.type = b.type /\ a.val = b.val

\* ------------------------------------------------------------ ShellError
NoError == [kind |-> "none", command |-> "", problem |-> PyStr(<<>>)]

\* ShellError(command, problem).
ShellError(command, problem) ==
    [kind |-> "ShellError", command |-> command, problem |-> problem]

\* ShellError.exit_code().
ShellError_exit_code(e) == e.problem

\* "exit code '%s'" % str(code)
ExitCodeProblem(code) == PyStr(<<"exit code '">> \o Str(code) \o <<"'">>)

\* SecureShellException(message).
SecureShellException(message) ==
    [kind |-> "SecureShellException", command |-> "", problem |-> PyStr(<<message>>)]

\* ------------------------------------------------------- queue records
OutRec(i) == [fd |-> 1, kind |-> "line", val |-> i]
ErrRec(i) == [fd |-> 2, kind |-> "line", val |-> i]
XcRec(code) == [fd |-> 0, kind |-> "xc", val |-> code]
EndRec == [fd |-> 0, kind |-> "end", val |-> 0]

IsEnd(r) == r.fd = 0 /\ r.kind = "end"
IsXc(r) == r.fd = 0 /\ r.kind = "xc"

\* Queue.put
Put(q, r) == Append(q, r)

\* The lines 1..n of a stream, in the order written.
Lines(n) == [i \in 1..n |-> i]

\* ------------------------------------------------ command composition
\* A prefix loop that stops after the first entry.
PrefixEnvFirstOnly(env, command) ==
    IF env = <<>> THEN command
    ELSE <<env[1][1], "=", env[1][2], "; ">> \o command

\* for var, val in env.items(): command = f"{var}={val}; {command}"
RECURSIVE PrefixEnv(_, _)
PrefixEnv(env, command) ==
    IF env = <<>> THEN command
    ELSE PrefixEnv(Tail(env), <<env[1][1], "=", env[1][2], "; ">> \o command)

\* ((f"cd \"{cwd}\"; ") if cwd else "") + command
WithCwd(cwd, command) ==
    IF cwd # None THEN <<"cd \"", cwd[1], "\"; ">> \o command ELSE command

\* x if x is not None else default
Effective(x, default) == IF x # None THEN x[1] ELSE default

\* ----------------------------------------------------------- initial state
NoOp == [op |-> "none", key |-> "", mandatory |-> FALSE, prior |-> None,
         probes |-> 0, nonePresent |-> FALSE, probe |-> "none",
         outcome |-> "none", exc |-> "none", value |-> None, ranBefore |-> FALSE]

\* The probe state before any probe has run (AbstractShell.__init__).
ProbeInit ==
    /\ availableCommands = <<>>
    /\ osType = None
    /\ lastOp = NoOp
    /\ firstReturned = <<>>
    /\ unameRan = FALSE

\* The call, channel, thread and result state before any call.
CallInit ==
    /\ pc = "idle" /\ cmd = "" /\ checkXc = FALSE /\ waitFlag = FALSE
    /\ sent = None /\ err = NoError
    /\ outSent = 0 /\ errSent = 0 /\ exited = FALSE /\ xc = 0
    /\ rdOut = "none" /\ rdErr = "none" /\ outRead = 0 /\ errRead = 0
    /\ wpc = "none"
    /\ queue = <<>> /\ consumed = 0 /\ result = FALSE
    /\ resOut = <<>> /\ resErr = <<>> /\ resXc = None /\ resolved = FALSE
    /\ passedEnv = None /\ callKw = <<>> /\ callCwd = None /\ chanOpen = FALSE
    /\ prevKw = <<>>

\* A URI: its scheme and the rest of it.
Uri(scheme, rest) == <<scheme, "://", rest>>

\* The session is a SecureShell built from an ssh URI.
BuiltSecureShell ==
    /\ uri = Some(Uri("ssh", "user@host:22"))
    /\ sessionType = "SecureShell"
    /\ factoryErr = "none"

\* No transfer or permission operation has run; the files to send exist.
NoXfer == [op |-> "none", outcome |-> "none", exc |-> "none", value |-> None,
           steps |-> <<>>, transfer |-> "none", stat |-> "none", run |-> "none",
           os |-> None]

\* rw-r----- (0o640) and rwxr-xr-x (0o755).
Modes == {6 * 64 + 4 * 8, 7 * 64 + 5 * 8 + 5}

XferIdle ==
    /\ localSrc \in Modes
    /\ remoteSrc \in Modes
    /\ localDst = None
    /\ remoteDst = None
    /\ xfer = NoXfer

\* The commands dispatched side by side.
Cmds == {"c1", "c2"}

NoThreads == [q |-> "none", rdOut |-> "none", rdErr |-> "none", wpc |-> "none", outRead |-> 0]
NoResult == [q |-> "none", got |-> <<>>, resolved |-> FALSE]

\* No command has been dispatched side by side.
TwoIdle ==
    /\ queues = [c \in Cmds |-> <<>>]
    /\ threads = [c \in Cmds |-> NoThreads]
    /\ results = [c \in Cmds |-> NoResult]

\* One fixed pair of files, for the specifications that transfer nothing.
XferNone ==
    /\ XferIdle /\ localSrc = 6 * 64 + 4 * 8 /\ remoteSrc = 6 * 64 + 4 * 8
    /\ TwoIdle

\* A connected SecureShell right after construction.
Init ==
    /\ selfEnv \in SessionEnvs
    /\ \E f \in SessionFlags : defCheckXc = f[1] /\ defWait = f[2]
    /\ transport = TRUE
    /\ CallInit
    /\ present = {}
    /\ ProbeInit
    /\ expectedEnv = selfEnv
    /\ BuiltSecureShell
    /\ XferNone

\* --------------------------------------------------------------- the call
\* An execute_command that opens the channel and starts the threads before it
\* looks at the transport.
ExecuteCommandChecksLate(command, env, wait, cwd, timedOut) ==
    IF transport /\ timedOut
    THEN /\ pc' = "failed"
         /\ err' = SecureShellException("Command execution timed out.")
         /\ chanOpen' = TRUE
         /\ UNCHANGED <<sent, threadVars, resultVars>>
    ELSE /\ chanOpen' = TRUE
         /\ sent' = Some(WithCwd(cwd, PrefixEnv(env, <<command>>)))
         /\ queue' = <<>>
         /\ rdOut' = "running"
         /\ rdErr' = "running"
         /\ wpc' = "recv"
         /\ IF transport
            THEN /\ result' = TRUE
                 /\ pc' = "check"
                 /\ UNCHANGED err
            ELSE /\ result' = FALSE
                 /\ pc' = "failed"
                 /\ err' = SecureShellException("Could not get transport from SSH client.")
         /\ UNCHANGED <<outRead, errRead, consumed, resOut, resErr, resXc, resolved>>

\* SecureShell.execute_command: compose the text, get the transport, open the
\* channel, start the two readers and the watcher, construct the result.
ExecuteCommand(command, env, wait, cwd, timedOut) ==
    IF ~transport
    THEN /\ pc' = "failed"
         /\ err' = SecureShellException("Could not get transport from SSH client.")
         /\ UNCHANGED <<sent, threadVars, resultVars, chanOpen>>
    ELSE IF timedOut
    THEN /\ pc' = "failed"
         /\ err' = SecureShellException("Command execution timed out.")
         /\ chanOpen' = TRUE
         /\ UNCHANGED <<sent, threadVars, resultVars>>
    ELSE /\ chanOpen' = TRUE
         /\ sent' = Some(WithCwd(cwd, PrefixEnv(env, <<command>>)))
         /\ queue' = <<>>
         /\ rdOut' = "running"
         /\ rdErr' = "running"
         /\ wpc' = "recv"
         /\ result' = TRUE
         /\ pc' = "check"
         /\ UNCHANGED <<err, outRead, errRead, consumed, resOut, resErr, resXc, resolved>>

\* A __call__ in which the session's entries win over the call's.
CallSessionWins(c, cxcArg, waitArg, cwd, kwargs, timedOut) ==
    /\ pc = "idle"
    /\ cmd' = c
    /\ checkXc' = Effective(cxcArg, defCheckXc)
    /\ waitFlag' = Effective(waitArg, defWait)
    /\ callKw' = kwargs
    /\ prevKw' = callKw
    /\ callCwd' = cwd
    /\ passedEnv' = Some(Update(kwargs, selfEnv))
    /\ ExecuteCommand(c, Update(kwargs, selfEnv), Effective(waitArg, defWait), cwd, timedOut)
    /\ UNCHANGED <<sessionVars, chanVars, probeVars, unameRan, expectedEnv, factoryVars,
                   xferVars,
                   twoVars>>

\* A __call__ that updates the session itself: env = self; env.update(kwargs).
CallAliasEnv(c, cxcArg, waitArg, cwd, kwargs, timedOut) ==
    /\ pc = "idle"
    /\ cmd' = c
    /\ checkXc' = Effective(cxcArg, defCheckXc)
    /\ waitFlag' = Effective(waitArg, defWait)
    /\ callKw' = kwargs
    /\ prevKw' = callKw
    /\ callCwd' = cwd
    /\ passedEnv' = Some(Update(selfEnv, kwargs))
    /\ ExecuteCommand(c, Update(selfEnv, kwargs), Effective(waitArg, defWait), cwd, timedOut)
    /\ selfEnv' = Update(selfEnv, kwargs)
    /\ UNCHANGED <<defCheckXc, defWait, transport, chanVars, probeVars, unameRan, expectedEnv, factoryVars,
                   xferVars,
                   twoVars>>

\* AbstractShell.__call__ up to the return of execute_command.
Call(c, cxcArg, waitArg, cwd, kwargs, timedOut) ==
    /\ pc = "idle"
    /\ cmd' = c
    /\ checkXc' = Effective(cxcArg, defCheckXc)
    /\ waitFlag' = Effective(waitArg, defWait)
    /\ callKw' = kwargs
    /\ prevKw' = callKw
    /\ callCwd' = cwd
    /\ passedEnv' = Some(Update(selfEnv, kwargs))
    /\ ExecuteCommand(c, Update(selfEnv, kwargs), Effective(waitArg, defWait), cwd, timedOut)
    /\ UNCHANGED <<sessionVars, chanVars, probeVars, unameRan, expectedEnv, factoryVars,
                   xferVars,
                   twoVars>>

\* ShellResult.exit_code() returns only once the result is resolved; until
\* then the caller drains the queue.
ExitCodeReturns == resolved

\* A __call__ that tests the result's exit-code field without calling
\* exit_code(), so without waiting for the result.
CallCheckNoExitCodeCall ==
    /\ pc = "check"
    /\ IF checkXc /\ resXc # Some(0)
       THEN /\ pc' = "raised"
            /\ err' = ShellError(cmd, ExitCodeProblem(IF resXc = None THEN 0 ELSE resXc[1]))
       ELSE /\ pc' = "returned"
            /\ UNCHANGED err
    /\ UNCHANGED <<sessionVars, cmd, checkXc, waitFlag, sent, chanVars, threadVars,
                   resultVars, probeVars, moreVars>>

\* AbstractShell.__call__, the check_xc test and the return.
CallCheck ==
    /\ pc = "check"
    /\ IF checkXc
       THEN /\ ExitCodeReturns
            /\ IF resXc[1] # 0
               THEN /\ pc' = "raised"
                    /\ err' = ShellError(cmd, ExitCodeProblem(resXc[1]))
               ELSE /\ pc' = "returned"
                    /\ UNCHANGED err
       ELSE /\ pc' = "returned"
            /\ UNCHANGED err
    /\ UNCHANGED <<sessionVars, cmd, checkXc, waitFlag, sent, chanVars, threadVars,
                   resultVars, probeVars, moreVars>>

\* AbstractShell.wait: self._result.wait(), entered.
Wait ==
    /\ pc = "returned"
    /\ pc' = "waiting"
    /\ UNCHANGED <<sessionVars, cmd, checkXc, waitFlag, sent, err, chanVars, threadVars,
                   resultVars, probeVars, moreVars>>

\* AbstractShell.wait: self._result.wait() returns once the result is resolved.
WaitDone ==
    /\ pc = "waiting"
    /\ resolved
    /\ pc' = "waited"
    /\ UNCHANGED <<sessionVars, cmd, checkXc, waitFlag, sent, err, chanVars, threadVars,
                   resultVars, probeVars, moreVars>>

\* SecureShell.do_disconnect: the client is closed and has no transport.
Disconnect ==
    /\ pc = "idle"
    /\ transport
    /\ transport' = FALSE
    /\ UNCHANGED <<selfEnv, defCheckXc, defWait, callVars, chanVars, threadVars,
                   resultVars, probeVars, moreVars>>

\* ------------------------------------------------------ the remote command
\* The command writes one more line to its stdout.
RemoteWriteOut ==
    /\ result /\ ~exited
    /\ outSent < MaxOut
    /\ outSent' = outSent + 1
    /\ UNCHANGED <<sessionVars, callVars, errSent, exited, xc, threadVars, resultVars,
                   probeVars, moreVars>>

\* The command writes one more line to its stderr.
RemoteWriteErr ==
    /\ result /\ ~exited
    /\ errSent < MaxErr
    /\ errSent' = errSent + 1
    /\ UNCHANGED <<sessionVars, callVars, outSent, exited, xc, threadVars, resultVars,
                   probeVars, moreVars>>

\* The command ends: its streams reach end of file and its exit status arrives.
RemoteExit(code) ==
    /\ result /\ ~exited
    /\ exited' = TRUE
    /\ xc' = code
    /\ UNCHANGED <<sessionVars, callVars, outSent, errSent, threadVars, resultVars,
                   probeVars, moreVars>>

\* ------------------------------------------------------------ the threads
\* StandardStreamReader(chan.makefile("r"), 1, queue): one line read and put.
ReaderOutLine ==
    /\ rdOut = "running"
    /\ outRead < outSent
    /\ outRead' = outRead + 1
    /\ queue' = Put(queue, OutRec(outRead + 1))
    /\ UNCHANGED <<sessionVars, callVars, chanVars, rdOut, rdErr, errRead, wpc,
                   consumed, result, resOut, resErr, resXc, resolved, probeVars, moreVars>>

\* The stdout reader meets end of file and ends.
ReaderOutEof ==
    /\ rdOut = "running"
    /\ outRead = outSent /\ exited
    /\ rdOut' = "done"
    /\ UNCHANGED <<sessionVars, callVars, chanVars, rdErr, outRead, errRead, wpc,
                   resultVars, probeVars, moreVars>>

\* StandardStreamReader(chan.makefile_stderr("r"), 2, queue): one line read and put.
ReaderErrLine ==
    /\ rdErr = "running"
    /\ errRead < errSent
    /\ errRead' = errRead + 1
    /\ queue' = Put(queue, ErrRec(errRead + 1))
    /\ UNCHANGED <<sessionVars, callVars, chanVars, rdOut, rdErr, outRead, wpc,
                   consumed, result, resOut, resErr, resXc, resolved, probeVars, moreVars>>

\* The stderr reader meets end of file and ends.
ReaderErrEof ==
    /\ rdErr = "running"
    /\ errRead = errSent /\ exited
    /\ rdErr' = "done"
    /\ UNCHANGED <<sessionVars, callVars, chanVars, rdOut, outRead, errRead, wpc,
                   resultVars, probeVars, moreVars>>

\* A watcher whose two puts are swapped: the end record goes first.
WatcherPutEndFirst ==
    /\ wpc = "recv"
    /\ exited
    /\ queue' = Put(queue, EndRec)
    /\ wpc' = "end"
    /\ UNCHANGED <<sessionVars, callVars, chanVars, rdOut, rdErr, outRead, errRead,
                   consumed, result, resOut, resErr, resXc, resolved, probeVars, moreVars>>

\* post_process_exit_code: queue.put( (0, chan.recv_exit_status()) )
WatcherPutExitCode ==
    /\ wpc = "recv"
    /\ exited
    /\ queue' = Put(queue, XcRec(xc))
    /\ wpc' = "end"
    /\ UNCHANGED <<sessionVars, callVars, chanVars, rdOut, rdErr, outRead, errRead,
                   consumed, result, resOut, resErr, resXc, resolved, probeVars, moreVars>>

\* A watcher that ends without putting the end record.
WatcherSkipEnd ==
    /\ wpc = "end"
    /\ wpc' = "done"
    /\ UNCHANGED <<sessionVars, callVars, chanVars, rdOut, rdErr, outRead, errRead,
                   resultVars, probeVars, moreVars>>

\* post_process_exit_code: queue.put( (0, None) )
WatcherPutEnd ==
    /\ wpc = "end"
    /\ queue' = Put(queue, EndRec)
    /\ wpc' = "done"
    /\ UNCHANGED <<sessionVars, callVars, chanVars, rdOut, rdErr, outRead, errRead,
                   consumed, result, resOut, resErr, resXc, resolved, probeVars, moreVars>>

\* ------------------------------------------------------------- the result
\* Someone is draining the queue: the background thread of a result built with
\* wait=True, or the caller blocked in exit_code() or in wait().
Draining ==
    /\ result /\ ~resolved
    /\ waitFlag \/ (pc = "check" /\ checkXc) \/ pc = "waiting"

\* The result takes the next record of the queue.
Drain ==
    /\ Draining
    /\ consumed < Len(queue)
    /\ consumed' = consumed + 1
    /\ LET r == queue[consumed + 1] IN
         /\ resOut' = IF r.fd = 1 THEN Append(resOut, r.val) ELSE resOut
         /\ resErr' = IF r.fd = 2 THEN Append(resErr, r.val) ELSE resErr
         /\ resXc' = IF IsXc(r) THEN Some(r.val) ELSE resXc
         /\ resolved' = IsEnd(r)
    /\ UNCHANGED <<sessionVars, callVars, chanVars, threadVars, queue, result, probeVars, moreVars>>

\* Every step but the start of a call.
Step ==
    \/ CallCheck
    \/ Wait
    \/ WaitDone
    \/ Disconnect
    \/ RemoteWriteOut
    \/ RemoteWriteErr
    \/ \E code \in ExitCodes : RemoteExit(code)
    \/ ReaderOutLine
    \/ ReaderOutEof
    \/ ReaderErrLine
    \/ ReaderErrEof
    \/ WatcherPutExitCode
    \/ WatcherPutEnd
    \/ Drain

Next ==
    \/ \E a \in CallArgs, cxcArg \in OptBool, waitArg \in OptBool, timedOut \in BOOLEAN :
          Call(a.cmd, cxcArg, waitArg, a.cwd, a.kwargs, timedOut)
    \/ Step

Spec == Init /\ [][Next]_vars

\* The threads and the remote command are scheduled fairly: the command ends,
\* each reader, the watcher and whoever drains the queue keep taking steps.
Fairness ==
    /\ WF_vars(\E code \in ExitCodes : RemoteExit(code))
    /\ WF_vars(ReaderOutLine) /\ WF_vars(ReaderOutEof)
    /\ WF_vars(ReaderErrLine) /\ WF_vars(ReaderErrEof)
    /\ WF_vars(WatcherPutExitCode) /\ WF_vars(WatcherPutEnd)
    /\ WF_vars(Drain)
    /\ WF_vars(CallCheck) /\ WF_vars(WaitDone)

\* A connected session whose flags are the defaults of __init__.
LiveInit == Init /\ defCheckXc = FALSE

\* The calls whose result nobody reads on return: check_xc=False, wait=False.
LiveNext ==
    \/ \E a \in CallArgs, timedOut \in BOOLEAN :
          Call(a.cmd, Some(FALSE), Some(FALSE), a.cwd, a.kwargs, timedOut)
    \/ Step

LiveSpec == LiveInit /\ [][LiveNext]_vars /\ Fairness

\* ------------------------------------------------- tool and OS probes
\* Executables the target may have.
Tools == {"md5sum", "md5", "chmod"}
\* Candidate lists given to get_command: those of md5 and set_permissions, and
\* one that shares its first candidate with md5's.
Lookups == {<<"md5sum", "md5">>, <<"md5sum">>, <<"chmod">>}

\* What execute_command does for a probe command: it returns a result with an
\* exit code and a text, or it raises.
ExecResult(code, text) == [kind |-> "result", xc |-> code, text |-> text, exc |-> "none"]
ExecRaise(exc) == [kind |-> "raise", xc |-> 0, text |-> <<>>, exc |-> exc]

\* The errors execute_command can raise: SecureShellException (no transport,
\* or a timeout), or an error of the SSH library when the channel cannot be
\* opened.
ExecErrors == {ExecRaise("SecureShellException"), ExecRaise("SSHException")}

\* What execute_command can do on the session as it stands: without a
\* transport it raises SecureShellException and nothing else.
ExecCan(o) == transport \/ (o.kind = "raise" /\ o.exc = "SecureShellException")

\* The backend's error at a probe command, None when the command runs.
ExecErrorOpts == {None} \cup {Some(e) : e \in ExecErrors}
ExecCanOpt(execErr) == IF execErr = None THEN transport ELSE ExecCan(execErr[1])

\* class SecureShellException(BaseException): not an Exception; the SSH
\* library's errors are.
IsException(exc) == exc # "SecureShellException"

\* Truth value of a result: the command succeeded.
ResultTruthy(r) == r.xc = 0

\* execute_command("command -v %s" % alternative) on a session that can run it.
ProbeCommand(alternative) ==
    IF alternative \in present THEN ExecResult(0, <<alternative>>) ELSE ExecResult(1, <<>>)

Min(S) == CHOOSE x \in S : \A y \in S : x <= y

\* AbstractShell.detect_command; execErr is the error the backend raises at
\* the first probe command, None when the probe commands run.
DetectCommand(alternatives, mandatory, execErr) ==
    LET found == {i \in 1..Len(alternatives) : ResultTruthy(ProbeCommand(alternatives[i]))}
    IN  IF execErr # None
        THEN [outcome |-> "raised", exc |-> execErr[1].exc, value |-> None, probes |-> 1]
        ELSE IF found # {}
        THEN [outcome |-> "returned", exc |-> "none",
              value |-> Some(alternatives[Min(found)]), probes |-> Min(found)]
        ELSE IF Effective(mandatory, TRUE)
        THEN [outcome |-> "raised", exc |-> "RuntimeError", value |-> None,
              probes |-> Len(alternatives)]
        ELSE [outcome |-> "returned", exc |-> "none", value |-> None,
              probes |-> Len(alternatives)]

\* What get_command records of a call for the claims: the call, what an
\* earlier call with the same first candidate returned, how this one ended.
LookupOp(alternatives, mandatory, d) ==
    [op |-> "get_command", key |-> alternatives[1],
     mandatory |-> Effective(mandatory, TRUE),
     prior |-> IF HasKey(firstReturned, alternatives[1])
               THEN Some(GetItem(firstReturned, alternatives[1])) ELSE None,
     probes |-> d.probes,
     nonePresent |-> \A i \in 1..Len(alternatives) : alternatives[i] \notin present,
     probe |-> "none", outcome |-> d.outcome, exc |-> d.exc, value |-> d.value,
     ranBefore |-> FALSE]

\* The first value returned for each first candidate name.
NoteReturn(key, d) ==
    IF d.outcome = "returned" /\ ~HasKey(firstReturned, key)
    THEN SetItem(firstReturned, key, d.value) ELSE firstReturned

\* A get_command that never looks into self._available_commands.
GetCommandNoCache(alternatives, mandatory, execErr) ==
    LET command == alternatives[1]
        d == DetectCommand(alternatives, mandatory, execErr)
    IN  /\ pc = "idle"
        /\ ExecCanOpt(execErr)
        /\ availableCommands' =
              IF d.outcome = "returned" THEN SetItem(availableCommands, command, d.value)
              ELSE availableCommands
        /\ lastOp' = LookupOp(alternatives, mandatory, d)
        /\ firstReturned' = NoteReturn(command, d)
        /\ UNCHANGED <<sessionVars, callVars, chanVars, threadVars, resultVars,
                       present, osType, moreVars>>

\* AbstractShell.get_command.
GetCommand(alternatives, mandatory, execErr) ==
    LET command == alternatives[1]
        d == IF ~HasKey(availableCommands, command)
             THEN DetectCommand(alternatives, mandatory, execErr)
             ELSE [outcome |-> "returned", exc |-> "none",
                   value |-> GetItem(availableCommands, command), probes |-> 0]
    IN  /\ pc = "idle"
        /\ ExecCanOpt(execErr)
        /\ availableCommands' =
              IF ~HasKey(availableCommands, command) /\ d.outcome = "returned"
              THEN SetItem(availableCommands, command, d.value)
              ELSE availableCommands
        /\ lastOp' = LookupOp(alternatives, mandatory, d)
        /\ firstReturned' = NoteReturn(command, d)
        /\ UNCHANGED <<sessionVars, callVars, chanVars, threadVars, resultVars,
                       present, osType, moreVars>>

\* An executable is installed on, or removed from, the target.
TargetChanges(tool) ==
    /\ present' = IF tool \in present THEN present \ {tool} ELSE present \cup {tool}
    /\ UNCHANGED <<sessionVars, callVars, chanVars, threadVars, resultVars,
                   availableCommands, osType, lastOp, firstReturned, moreVars>>

\* --- text of `uname -s`
UpperChars == <<"A", "B", "C", "D", "E", "F", "G", "H", "I", "J", "K", "L", "M",
                "N", "O", "P", "Q", "R", "S", "T", "U", "V", "W", "X", "Y", "Z">>
LowerChars == <<"a", "b", "c", "d", "e", "f", "g", "h", "i", "j", "k", "l", "m",
                "n", "o", "p", "q", "r", "s", "t", "u", "v", "w", "x", "y", "z">>
Whitespace == {" ", "\n", "\r", "\t"}

\* str.lower
LowerChar(c) ==
    IF \E i \in 1..Len(UpperChars) : UpperChars[i] = c
    THEN LowerChars[CHOOSE i \in 1..Len(UpperChars) : UpperChars[i] = c]
    ELSE c
Lower(s) == [i \in 1..Len(s) |-> LowerChar(s[i])]

\* str.strip
Strip(s) ==
    LET keep == {i \in 1..Len(s) : s[i] \notin Whitespace}
    IN  IF keep = {} THEN <<>>
        ELSE SubSeq(s, Min(keep), CHOOSE x \in keep : \A y \in keep : y <= x)

\* sub in s
Contains(sub, s) ==
    \E i \in 0..(Len(s) - Len(sub)) : SubSeq(s, i + 1, i + Len(sub)) = sub

\* What `uname -s` may print.
UnameTexts ==
    { <<"L", "i", "n", "u", "x", "\n">>,
      <<"D", "a", "r", "w", "i", "n">>,
      <<"S", "u", "n", "O", "S", "\n">> }

\* What execute_command("uname -s") may do.
UnameOutcomes ==
    ExecErrors \cup {ExecResult(0, t) : t \in UnameTexts} \cup {ExecResult(127, <<>>)}

\* The classification of _detect_os.
Classify(text) ==
    LET os_name == Lower(Strip(text))
    IN  IF Contains(<<"l", "i", "n", "u", "x">>, os_name) THEN "linux"
        ELSE IF Contains(<<"d", "a", "r", "w", "i", "n">>, os_name) THEN "darwin"
        ELSE "unknown"

\* How the probe of a detection went, for the claims.
ProbeKind(o) ==
    IF o.kind = "raise" THEN "raised" ELSE IF o.xc # 0 THEN "nonzero" ELSE "ok"

\* AbstractShell._detect_os; o is what execute_command("uname -s") does.
DetectOs(o) ==
    /\ pc = "idle"
    /\ ExecCan(o)
    /\ IF osType # None
       THEN /\ lastOp' = [NoOp EXCEPT !.op = "detect_os", !.outcome = "returned",
                                      !.value = osType, !.ranBefore = unameRan]
            /\ UNCHANGED osType
       ELSE IF o.kind = "raise" /\ ~IsException(o.exc)
       THEN /\ lastOp' = [NoOp EXCEPT !.op = "detect_os", !.probes = 1,
                                      !.probe = ProbeKind(o),
                                      !.outcome = "raised", !.exc = o.exc,
                                      !.ranBefore = unameRan]
            /\ UNCHANGED osType
       ELSE LET detected == IF o.kind = "raise" THEN "unknown"
                            ELSE IF ResultTruthy(o) /\ o.xc = 0 THEN Classify(o.text)
                            ELSE "unknown"
            IN  /\ osType' = Some(detected)
                /\ lastOp' = [NoOp EXCEPT !.op = "detect_os", !.probes = 1,
                                          !.probe = ProbeKind(o),
                                          !.outcome = "returned",
                                          !.value = Some(detected),
                                          !.ranBefore = unameRan]
    /\ unameRan' = (unameRan \/ osType = None)
    /\ UNCHANGED <<sessionVars, callVars, chanVars, threadVars, resultVars,
                   present, availableCommands, firstReturned, callXVars, expectedEnv,
                   factoryVars, xferVars,
                   twoVars>>

\* A connected session on a target with any of the tools installed.
ToolInit ==
    /\ selfEnv \in SessionEnvs
    /\ \E f \in SessionFlags : defCheckXc = f[1] /\ defWait = f[2]
    /\ transport = TRUE
    /\ CallInit
    /\ present \in SUBSET Tools
    /\ ProbeInit
    /\ expectedEnv = selfEnv
    /\ BuiltSecureShell
    /\ XferNone

ToolNext ==
    \/ \E alternatives \in Lookups, mandatory \in OptBool, execErr \in ExecErrorOpts :
          GetCommand(alternatives, mandatory, execErr)
    \/ \E o \in UnameOutcomes : DetectOs(o)
    \/ \E tool \in Tools : TargetChanges(tool)
    \/ Disconnect

ToolSpec == ToolInit /\ [][ToolNext]_vars


\* ------------------------------------------------------- claims C1 to C7
\* Positions of the exit-code records and of the end records in the queue.
XcPositions == {i \in 1..Len(queue) : IsXc(queue[i])}
EndPositions == {i \in 1..Len(queue) : IsEnd(queue[i])}
\* The caller has left __call__ with the result.
Returned == pc \in {"returned", "waiting", "waited"}

\* C1: with effective check_xc true, a call returns without raising only when
\* the command's exit code is 0, and for a non-zero exit code n it raises a
\* ShellError that carries the caller's command text and whose exit_code()
\* is n.
C1_CheckXcRaisesExactCode ==
    /\ (checkXc /\ Returned => xc = 0)
    /\ (pc = "raised" =>
          /\ checkXc /\ exited /\ xc # 0
          /\ err.kind = "ShellError"
          /\ err.command = cmd
          /\ PyEq(ShellError_exit_code(err), PyInt(xc)))

\* C2: the end record is the last record put on the command's queue: no
\* stdout or stderr record follows it.
C2_EndRecordIsLast ==
    \A i \in 1..Len(queue) : IsEnd(queue[i]) => i = Len(queue)

\* C3: once the result has drained the queue up to the end record, its stdout
\* is exactly the lines the command wrote to stdout, in order, and its stderr
\* exactly the lines written to stderr.
C3_StreamsRecovered ==
    resolved => resOut = Lines(outSent) /\ resErr = Lines(errSent)

\* C4: the exit-code record is on the queue only if both stream readers have
\* ended.
C4_ExitCodeAfterReaders ==
    XcPositions # {} => rdOut = "done" /\ rdErr = "done"

\* C5: with effective check_xc true the call leaves __call__, by raising or by
\* returning, only with a resolved result whose exit code is known, whatever
\* the wait flag.
C5_CheckXcOnlyOnResolved ==
    /\ (pc = "raised" => resolved /\ resXc # None /\ resXc # Some(0))
    /\ (checkXc /\ Returned => resolved /\ resXc = Some(0))

C5_Witness == pc = "raised" /\ ~waitFlag /\ resolved

\* C6: the watcher puts exactly one exit-code record and exactly one end
\* record, the end record after the exit-code record, and never an end record
\* without an exit-code record before it.
C6_OneExitCodeThenOneEnd ==
    /\ Cardinality(XcPositions) <= 1
    /\ Cardinality(EndPositions) <= 1
    /\ \A e \in EndPositions : \E x \in XcPositions : x < e
    /\ (wpc = "end" => Cardinality(XcPositions) = 1 /\ EndPositions = {})
    /\ (wpc = "done" => Cardinality(XcPositions) = 1 /\ Cardinality(EndPositions) = 1)
    /\ (wpc \in {"none", "recv"} => XcPositions = {} /\ EndPositions = {})

C6_Witness == wpc = "done" /\ Len(queue) > 2

\* C7: under fair scheduling and a command that ends, the end record of every
\* constructed result is eventually put on the queue, read or not, and a
\* caller that starts to drain it later reaches the resolved state.
C7_EndEventuallyEnqueued ==
    /\ (result ~> (EndPositions # {}))
    /\ ((pc = "waiting") ~> resolved)

C7_Witness ==
    /\ result /\ ~waitFlag /\ ~checkXc /\ pc = "returned"
    /\ consumed = 0 /\ EndPositions # {}

\* ------------------------------------------------------ claims C8 to C10
\* C8: once a get_command call for a first candidate name has returned, every
\* later call with that first candidate returns the same value and runs no
\* presence-check command.
C8_GetCommandCached ==
    (lastOp.op = "get_command" /\ lastOp.prior # None) =>
        /\ lastOp.outcome = "returned"
        /\ lastOp.value = lastOp.prior[1]
        /\ lastOp.probes = 0

C8_Witness ==
    /\ lastOp.op = "get_command" /\ lastOp.prior # None
    /\ lastOp.value # None
    /\ lastOp.value[1] \notin present

\* C9: a get_command call marked mandatory for a tool of which no candidate is
\* present fails with an error; a call not marked mandatory returns an empty
\* result when its presence checks find no candidate.
C9_MandatoryLookupFails ==
    (lastOp.op = "get_command" /\ lastOp.nonePresent) =>
        /\ lastOp.mandatory => lastOp.outcome = "raised"
        /\ (~lastOp.mandatory /\ lastOp.exc = "none") =>
              (lastOp.outcome = "returned" /\ lastOp.value = None)

\* C10: whenever the `uname -s` probe of an OS detection fails, by a non-zero
\* exit code or by any error execute_command raises, the detection returns
\* 'unknown' and raises nothing.
C10_FailedProbeGivesUnknown ==
    (lastOp.op = "detect_os" /\ lastOp.probe \in {"nonzero", "raised"}) =>
        /\ lastOp.outcome = "returned"
        /\ lastOp.value = Some("unknown")

\* ------------------------------------------------------------ permissions
\* What is known of the operating system after _detect_os, and whether it
\* raised; o is what execute_command("uname -s") does.
OsDetection(o) ==
    IF osType # None
    THEN [raised |-> FALSE, exc |-> "none", os |-> osType]
    ELSE IF o.kind = "raise" /\ ~IsException(o.exc)
    THEN [raised |-> TRUE, exc |-> o.exc, os |-> None]
    ELSE [raised |-> FALSE, exc |-> "none",
          os |-> Some(IF o.kind = "raise" THEN "unknown"
                      ELSE IF ResultTruthy(o) /\ o.xc = 0 THEN Classify(o.text)
                      ELSE "unknown")]

\* "%o" % n
RECURSIVE Oct(_)
Oct(n) ==
    IF n < 8 THEN <<DigitChars[n + 1]>>
    ELSE Oct(n \div 8) \o <<DigitChars[(n % 8) + 1]>>

\* str.isdigit()
IsDigit(s) == Len(s) > 0 /\ \A i \in 1..Len(s) : \E d \in 1..10 : DigitChars[d] = s[i]

DigitValue(c) == (CHOOSE d \in 1..10 : DigitChars[d] = c) - 1

\* int(s, 8) accepts s: every digit is below 8.
IsOctal(s) == IsDigit(s) /\ \A i \in 1..Len(s) : DigitValue(s[i]) < 8

\* int(s, 8)
RECURSIVE IntBase8(_)
IntBase8(s) ==
    IF Len(s) = 0 THEN 0
    ELSE 8 * IntBase8(SubSeq(s, 1, Len(s) - 1)) + DigitValue(s[Len(s)])

\* The stat command of get_permissions for an OS type: in the f-string the
\* format stays '%%a' ('%%A'), two percent signs.
StatCmd(os, path) ==
    IF os = "linux" THEN <<"stat", "-c", "'", "%", "%", "a", "'", path>>
    ELSE <<"stat", "-f", "'", "%", "%", "A", "'", path>>

\* What the stat command may do on the target: print the file's mode in octal,
\* print the format's text after "%%" is read as a literal percent sign, exit
\* non-zero (no such file, no stat on the target), or the backend raises.
StatKinds == {"mode", "literal", "nonzero", "SecureShellException", "SSHException"}

StatResult(k, command, mode) ==
    IF k = "mode" THEN ExecResult(0, Oct(mode) \o <<"\n">>)
    ELSE IF k = "literal" THEN ExecResult(0, <<"%", command[6], "\n">>)
    ELSE IF k = "nonzero" THEN ExecResult(1, <<>>)
    ELSE ExecRaise(k)

StatCan(k) == transport \/ k = "SecureShellException"

\* AbstractShell.get_permissions on a file of the given mode: how it ends, with
\* what value (None is Python's None), and the OS type it leaves cached.
GetPermissionsRun(o, k, mode) ==
    LET d == OsDetection(o)
        os_type == d.os
        stat_cmd == StatCmd(os_type[1], "path")
        res == StatResult(k, stat_cmd, mode)
        output == Strip(res.text)
        end(outcome, exc, value, stat) ==
            [outcome |-> outcome, exc |-> exc, value |-> value, os |-> os_type,
             stat |-> stat]
    IN  IF d.raised THEN end("raised", d.exc, None, "none")
        ELSE IF os_type \notin {Some("linux"), Some("darwin")}
        THEN end("raised", "RuntimeError", None, "none")
        ELSE IF res.kind = "raise"
        THEN end("raised", IF IsException(res.exc) THEN "RuntimeError" ELSE res.exc,
                 None, k)
        ELSE IF ResultTruthy(res) /\ res.xc = 0 /\ IsDigit(output)
        THEN IF IsOctal(output) THEN end("returned", "none", Some(IntBase8(output)), k)
             ELSE end("raised", "RuntimeError", None, k)
        ELSE end("returned", "none", None, k)

\* A detection with nothing cached calls execute_command("uname -s").
UnameRuns == osType = None

\* AbstractShell.get_permissions(remote path); o and k are what uname -s and
\* the stat command do.
GetPermissions(o, k) ==
    LET g == GetPermissionsRun(o, k, remoteSrc)
    IN  /\ pc = "idle"
        /\ ExecCan(o) /\ StatCan(k)
        /\ osType' = g.os
        /\ unameRan' = (unameRan \/ UnameRuns)
        /\ xfer' = [NoXfer EXCEPT !.op = "get_permissions", !.outcome = g.outcome,
                                  !.exc = g.exc, !.value = g.value, !.stat = g.stat,
                                  !.os = g.os]
        /\ UNCHANGED <<sessionVars, callVars, chanVars, threadVars, resultVars,
                       present, availableCommands, lastOp, firstReturned,
                       callXVars, expectedEnv, factoryVars,
                       localSrc, remoteSrc, localDst, remoteDst,
                   twoVars>>

\* ------------------------------------------------------- push and pull
\* stat(local_path).st_mode of a regular file with the given permission bits.
StMode(mode) == 8 * 8 * 8 * 8 * 8 + mode

\* n & 0o777
And777(n) == n % (8 * 8 * 8)

\* The mode a transfer writes its copy with: rw-r--r--.
CreatedMode == 6 * 64 + 4 * 8 + 4

\* What do_pull and do_push may do: transfer the file, or the SCP client raises.
TransferKinds == {"ok", "SCPException"}
TransferCan(t) == transport \/ t # "ok"

\* What the chmod command line may do on the target: change the mode, exit
\* non-zero (not the owner, read-only file system), or the backend raises.
RunKinds == {"ok", "nonzero", "SecureShellException", "SSHException"}
RunCan(c) == transport \/ c = "SecureShellException"

\* What get_command gives, from the cache or from detect_command.
Lookup(alternatives, mandatory, execErr) ==
    IF ~HasKey(availableCommands, alternatives[1])
    THEN DetectCommand(alternatives, mandatory, execErr)
    ELSE [outcome |-> "returned", exc |-> "none",
          value |-> GetItem(availableCommands, alternatives[1]), probes |-> 0]

\* "%s" % chmod: the name, or "None" for Python's None.
StrOf(v) == IF v = None THEN "None" ELSE v[1]

\* AbstractShell.set_permissions on a remote file that exists: how it ends and
\* the mode it leaves on the file. The command line is run through __call__
\* with the session's own check_xc; c is what the command line does when its
\* executable exists.
SetPermissionsRun(permissions, execErr, c, before) ==
    LET d == Lookup(<<"chmod">>, Some(TRUE), execErr)
        chmod == StrOf(d.value)
        command == <<chmod, " ">> \o Oct(permissions) \o <<" ", "'", "path", "'">>
        mode == IntBase8(SubSeq(command, 3, Len(command) - 4))
        ran == IF chmod \in present THEN c
               ELSE IF c \in {"ok", "nonzero"} THEN "nonzero" ELSE c
        end(outcome, exc, after, run) ==
            [outcome |-> outcome, exc |-> exc, after |-> after, run |-> run, lookup |-> d]
    IN  IF d.outcome = "raised" THEN end("raised", d.exc, before, "none")
        ELSE IF ran = "ok" THEN end("returned", "none", Some(mode), ran)
        ELSE IF ran = "nonzero"
        THEN IF defCheckXc THEN end("raised", "ShellError", before, ran)
             ELSE end("returned", "none", before, ran)
        ELSE end("raised", ran, before, ran)

\* The cache and the lookup notes after the get_command of set_permissions.
NoteLookup(d) ==
    /\ availableCommands' =
          IF ~HasKey(availableCommands, "chmod") /\ d.outcome = "returned"
          THEN SetItem(availableCommands, "chmod", d.value)
          ELSE availableCommands
    /\ lastOp' = LookupOp(<<"chmod">>, Some(TRUE), d)
    /\ firstReturned' = NoteReturn("chmod", d)

\* AbstractShell.set_permissions(remote path, permissions) on the file pushed
\* before.
SetPermissions(permissions, execErr, c) ==
    LET r == SetPermissionsRun(permissions, execErr, c, remoteDst)
    IN  /\ pc = "idle"
        /\ remoteDst # None
        /\ ExecCanOpt(execErr) /\ RunCan(c)
        /\ NoteLookup(r.lookup)
        /\ remoteDst' = r.after
        /\ xfer' = [NoXfer EXCEPT !.op = "set_permissions", !.outcome = r.outcome,
                                  !.exc = r.exc, !.value = Some(permissions),
                                  !.run = r.run]
        /\ UNCHANGED <<sessionVars, callVars, chanVars, threadVars, resultVars,
                       present, osType, unameRan, callXVars, expectedEnv, factoryVars,
                       localSrc, remoteSrc, localDst,
                   twoVars>>

\* A push that sets the permissions before it transfers the file.
PushPermissionsFirst(t, execErr, c) ==
    LET r == SetPermissionsRun(And777(StMode(localSrc)), execErr, c, remoteDst)
        ok == r.outcome = "returned" /\ t = "ok"
    IN  /\ pc = "idle"
        /\ TransferCan(t) /\ ExecCanOpt(execErr) /\ RunCan(c)
        /\ NoteLookup(r.lookup)
        /\ remoteDst' = IF t = "ok" /\ r.outcome = "returned" THEN Some(CreatedMode)
                        ELSE r.after
        /\ xfer' = [NoXfer EXCEPT !.op = "push",
                       !.outcome = IF ok THEN "returned" ELSE "raised",
                       !.exc = IF r.outcome = "raised" THEN r.exc
                               ELSE IF t # "ok" THEN t ELSE "none",
                       !.value = Some(And777(StMode(localSrc))),
                       !.run = r.run, !.transfer = t,
                       !.steps = IF r.outcome = "raised" THEN <<"log", "permissions">>
                                 ELSE <<"log", "permissions", "transfer">>]
        /\ UNCHANGED <<sessionVars, callVars, chanVars, threadVars, resultVars,
                       present, osType, unameRan, callXVars, expectedEnv, factoryVars,
                       localSrc, remoteSrc, localDst,
                   twoVars>>

\* AbstractShell.push with SecureShell.do_push; t is what the transfer does.
Push(t, execErr, c) ==
    LET permissions == And777(StMode(localSrc))
        r == SetPermissionsRun(permissions, execErr, c, Some(CreatedMode))
    IN  /\ pc = "idle"
        /\ TransferCan(t) /\ ExecCanOpt(execErr) /\ RunCan(c)
        /\ IF t # "ok"
           THEN /\ xfer' = [NoXfer EXCEPT !.op = "push", !.outcome = "raised", !.exc = t,
                                          !.transfer = t,
                                          !.steps = <<"log", "transfer">>]
                /\ UNCHANGED <<remoteDst, availableCommands, lastOp, firstReturned>>
           ELSE /\ NoteLookup(r.lookup)
                /\ remoteDst' = r.after
                /\ xfer' = [NoXfer EXCEPT !.op = "push", !.outcome = r.outcome,
                                          !.exc = r.exc, !.value = Some(permissions),
                                          !.run = r.run, !.transfer = t,
                                          !.steps = <<"log", "transfer", "permissions">>]
        /\ UNCHANGED <<sessionVars, callVars, chanVars, threadVars, resultVars,
                       present, osType, unameRan, callXVars, expectedEnv, factoryVars,
                       localSrc, remoteSrc, localDst,
                   twoVars>>

\* AbstractShell.pull with SecureShell.do_pull; t is what the transfer does, o
\* and k what uname -s and the stat command do. os.chmod(path, None) raises
\* TypeError.
Pull(t, o, k) ==
    LET g == GetPermissionsRun(o, k, remoteSrc)
    IN  /\ pc = "idle"
        /\ TransferCan(t) /\ ExecCan(o) /\ StatCan(k)
        /\ IF t # "ok"
           THEN /\ xfer' = [NoXfer EXCEPT !.op = "pull", !.outcome = "raised", !.exc = t,
                                          !.transfer = t,
                                          !.steps = <<"log", "transfer">>]
                /\ UNCHANGED <<localDst, osType, unameRan>>
           ELSE /\ osType' = g.os
                /\ unameRan' = (unameRan \/ UnameRuns)
                /\ localDst' = IF g.outcome = "returned" /\ g.value # None
                               THEN g.value ELSE Some(CreatedMode)
                /\ xfer' = [NoXfer EXCEPT
                               !.op = "pull",
                               !.outcome = IF g.outcome = "returned" /\ g.value # None
                                           THEN "returned" ELSE "raised",
                               !.exc = IF g.outcome = "raised" THEN g.exc
                                       ELSE IF g.value = None THEN "TypeError"
                                       ELSE "none",
                               !.value = g.value, !.stat = g.stat, !.os = g.os,
                               !.transfer = t,
                               !.steps = <<"log", "transfer", "permissions">>]
        /\ UNCHANGED <<sessionVars, callVars, chanVars, threadVars, resultVars,
                       present, availableCommands, lastOp, firstReturned,
                       callXVars, expectedEnv, factoryVars,
                       localSrc, remoteSrc, remoteDst,
                   twoVars>>

\* The chmod lookups of set_permissions and of a caller of get_command.
ChmodLookups == {<<"chmod">>}

\* A connected session, a file to send and one to fetch with differing modes,
\* chmod on the target or not.
XferInit ==
    /\ selfEnv \in SessionEnvs
    /\ \E f \in SessionFlags : defCheckXc = f[1] /\ defWait = f[2]
    /\ transport = TRUE
    /\ CallInit
    /\ present \in SUBSET {"chmod"}
    /\ ProbeInit
    /\ expectedEnv = selfEnv
    /\ BuiltSecureShell
    /\ XferIdle
    /\ localSrc # remoteSrc
    /\ TwoIdle

\* The permission operations called on their own, after a push that puts the
\* remote file in place.
PermNext ==
    \/ \E o \in UnameOutcomes, k \in StatKinds : GetPermissions(o, k)
    \/ \E m \in Modes, execErr \in ExecErrorOpts, c \in RunKinds :
          SetPermissions(m, execErr, c)
    \/ \E t \in TransferKinds, execErr \in ExecErrorOpts, c \in RunKinds :
          Push(t, execErr, c)
    \/ Disconnect

PermSpec == XferInit /\ [][PermNext]_vars

\* Transfers, and chmod lookups by other callers.
XferNext ==
    \/ \E t \in TransferKinds, o \in UnameOutcomes, k \in StatKinds :
          Pull(t, o, k)
    \/ \E t \in TransferKinds, execErr \in ExecErrorOpts, c \in RunKinds :
          Push(t, execErr, c)
    \/ \E alternatives \in ChmodLookups, mandatory \in OptBool, execErr \in ExecErrorOpts :
          GetCommand(alternatives, mandatory, execErr)

XferSpec == XferInit /\ [][XferNext]_vars

\* ------------------------------------------------------ claims C11, C12, C15
\* C11: get_permissions either returns the permission bits of the path or
\* raises; it never completes normally without a value. It raises when the OS
\* is not recognised and when the stat command fails.
C11_PermissionsOrRaise ==
    xfer.op = "get_permissions" =>
        /\ xfer.outcome = "returned" => xfer.value = Some(remoteSrc)
        /\ xfer.os \notin {Some("linux"), Some("darwin")} => xfer.outcome = "raised"
        /\ xfer.stat \in {"nonzero", "SecureShellException", "SSHException"} =>
              xfer.outcome = "raised"

\* C12: a file pulled ends with the remote file's permission bits on the local
\* copy, and after a push the remote file's mode is the local mode & 0o777.
C12_ModesCarriedOver ==
    /\ (xfer.op = "pull" /\ xfer.outcome = "returned") => localDst = Some(remoteSrc)
    /\ (xfer.op = "push" /\ xfer.outcome = "returned") =>
          remoteDst = Some(And777(StMode(localSrc)))

\* C15: pull and push log, then transfer, then handle the permissions. When the
\* transfer fails the operation fails and no permission is queried or changed;
\* when the permission step fails the transferred file stays in place.
C15_LogTransferPermissions ==
    xfer.op \in {"pull", "push"} =>
        /\ xfer.steps \in {<<"log", "transfer">>, <<"log", "transfer", "permissions">>}
        /\ xfer.transfer # "ok" =>
              /\ xfer.outcome = "raised"
              /\ xfer.steps = <<"log", "transfer">>
              /\ xfer.stat = "none" /\ xfer.run = "none" /\ xfer.os = None
        /\ (xfer.transfer = "ok" /\ xfer.outcome = "raised") =>
              /\ xfer.steps = <<"log", "transfer", "permissions">>
              /\ xfer.op = "pull" => localDst # None
              /\ xfer.op = "push" => remoteDst # None

\* A pull whose permission query failed after the file was fetched.
C15_Witness ==
    /\ xfer.op = "pull"
    /\ xfer.transfer = "ok"
    /\ xfer.outcome = "raised"
    /\ xfer.stat = "nonzero"
    /\ localDst = Some(CreatedMode)

\* ------------------------------------------------- one call after another
\* The caller is done with a call and may make the next one.
Return ==
    /\ pc \in {"returned", "raised", "failed"}
    /\ pc' = "idle"
    /\ UNCHANGED <<sessionVars, cmd, checkXc, waitFlag, sent, err, chanVars, threadVars,
                   resultVars, probeVars, moreVars>>

\* shell[name] = value: the session is a dict, the caller assigns an entry.
AssignEnv(name, value) ==
    /\ pc = "idle"
    /\ selfEnv' = SetItem(selfEnv, name, value)
    /\ expectedEnv' = SetItem(expectedEnv, name, value)
    /\ UNCHANGED <<defCheckXc, defWait, transport, callVars, chanVars, threadVars,
                   resultVars, probeVars, unameRan, callXVars, factoryVars, xferVars,
                   twoVars>>

\* Session environments, per-call overrides and cwds that share names.
ComposeEnvs == {<<>>, << <<"FOO", "a">> >>, << <<"FOO", "a">>, <<"BAR", "a">> >>}
ComposeKwargs ==
    {<<>>, << <<"FOO", "b">> >>, << <<"BAZ", "b">> >>, << <<"BAZ", "b">>, <<"FOO", "b">> >>}
ComposeCwds == {None, Some("/tmp")}

ComposeInit ==
    /\ selfEnv \in ComposeEnvs
    /\ \E f \in SessionFlags : defCheckXc = f[1] /\ defWait = f[2]
    /\ transport = TRUE
    /\ CallInit
    /\ present = {}
    /\ ProbeInit
    /\ expectedEnv = selfEnv
    /\ BuiltSecureShell
    /\ XferNone

\* Calls that do not look at the exit code, one after another, and
\* assignments to the session between them.
ComposeNext ==
    \/ \E cwd \in ComposeCwds, kwargs \in ComposeKwargs, timedOut \in BOOLEAN :
          Call("ls", Some(FALSE), Some(FALSE), cwd, kwargs, timedOut)
    \/ CallCheck
    \/ Return
    \/ AssignEnv("BAR", "c")

ComposeSpec == ComposeInit /\ [][ComposeNext]_vars

\* The names of a mapping.
Keys(d) == {d[i][1] : i \in 1..Len(d)}

\* ------------------------------------------------- claims C13, C19, C20
\* C13: the environment passed to the backend for a call is the session's
\* default environment merged with the call's overrides; for a name in both,
\* the call's value is the one passed.
C13_EnvMergedCallWins ==
    pc # "idle" =>
        /\ passedEnv # None
        /\ Keys(passedEnv[1]) = Keys(selfEnv) \cup Keys(callKw)
        /\ Len(passedEnv[1]) = Cardinality(Keys(passedEnv[1]))
        /\ \A n \in Keys(passedEnv[1]) :
              GetItem(passedEnv[1], n) =
                 IF HasKey(callKw, n) THEN GetItem(callKw, n) ELSE GetItem(selfEnv, n)

\* A call overrode a name of the session and added one of its own.
C13_Witness ==
    /\ pc = "returned"
    /\ HasKey(selfEnv, "FOO") /\ HasKey(selfEnv, "BAR")
    /\ HasKey(callKw, "FOO") /\ HasKey(callKw, "BAZ")

\* C19: the text sent to the remote side is an optional `cd "<cwd>"; `, one
\* `NAME=VALUE; ` for each entry of the environment given to the call, each
\* entry exactly once, and the caller's command unchanged at the end; with an
\* empty environment and no cwd it is the caller's command.
C19_SentText ==
    pc \in {"check", "returned", "raised"} =>
        LET t == sent[1]
            e == passedEnv[1]
            off == IF callCwd # None THEN 3 ELSE 0
            group(j) == SubSeq(t, off + 4 * j + 1, off + 4 * j + 4)
        IN  /\ sent # None
            /\ Len(t) = off + 4 * Len(e) + 1
            /\ t[Len(t)] = cmd
            /\ callCwd # None => SubSeq(t, 1, 3) = <<"cd \"", callCwd[1], "\"; ">>
            /\ \A i \in 1..Len(e) :
                  Cardinality({j \in 0..(Len(e) - 1) :
                                  group(j) = <<e[i][1], "=", e[i][2], "; ">>}) = 1
            /\ (e = <<>> /\ callCwd = None) => t = <<cmd>>

\* A command sent with a cwd and three environment entries.
C19_Witness ==
    /\ pc = "check"
    /\ callCwd # None
    /\ passedEnv # None /\ Len(passedEnv[1]) = 3
    /\ sent # None /\ Len(sent[1]) > 4 * 3

\* C20: per-call overrides leave the session's environment unchanged: it holds
\* what was given at construction or assigned since, and a later call is not
\* passed an override of the call before.
C20_OverridesAreTransient ==
    /\ selfEnv = expectedEnv
    /\ pc # "idle" =>
          \A n \in Keys(prevKw) \ Keys(callKw) :
             IF HasKey(expectedEnv, n)
             THEN GetItem(passedEnv[1], n) = GetItem(expectedEnv, n)
             ELSE ~HasKey(passedEnv[1], n)

\* A call without overrides after a call that overrode a name of the session
\* and added another.
C20_Witness ==
    /\ pc = "returned"
    /\ callKw = <<>>
    /\ HasKey(prevKw, "FOO") /\ HasKey(prevKw, "BAZ")
    /\ HasKey(selfEnv, "FOO")

\* ------------------------------------------------------------ the factory
\* URIs given to Shell(): none, or any of these schemes with any of these rests.
Schemes == {"local", "ssh", "serial", "telnet", "adb"}
Rests == {"host", "user@host:22"}
Uris == {None} \cup {Some(Uri(scheme, rest)) : scheme \in Schemes, rest \in Rests}

\* ParsedUri(uri).scheme: the text before "://", "local" when no URI is given.
ParsedScheme(u) == IF u = None THEN "local" ELSE u[1][1]

\* The sessions that connect while they are constructed.
Connects(type) == type \in {"SecureShell", "SerialShell"}

\* A factory that falls back to a local session for a scheme it does not know.
ShellFallsBack(connected) ==
    LET scheme == ParsedScheme(uri)
        type == IF scheme = "ssh" THEN "SecureShell"
                ELSE IF scheme = "serial" THEN "SerialShell"
                ELSE "LocalShell"
    IN  /\ sessionType = "none" /\ factoryErr = "none"
        /\ IF Connects(type) /\ ~connected
           THEN /\ factoryErr' = "ConnectError"
                /\ UNCHANGED <<sessionType, transport>>
           ELSE /\ sessionType' = type
                /\ transport' = (type = "SecureShell")
                /\ UNCHANGED factoryErr
        /\ UNCHANGED <<selfEnv, defCheckXc, defWait, callVars, chanVars, threadVars,
                       resultVars, probeVars, unameRan, callXVars, expectedEnv, uri,
                       xferVars,
                   twoVars>>

\* Shell(uri, check_xc, check_err, wait, **kwargs); connected says whether a
\* session that connects during construction gets its connection.
Shell(connected) ==
    LET scheme == ParsedScheme(uri)
        type == IF scheme = "local" THEN "LocalShell"
                ELSE IF scheme = "ssh" THEN "SecureShell"
                ELSE IF scheme = "serial" THEN "SerialShell"
                ELSE "none"
    IN  /\ sessionType = "none" /\ factoryErr = "none"
        /\ IF type = "none"
           THEN /\ factoryErr' = "RuntimeError"
                /\ UNCHANGED <<sessionType, transport>>
           ELSE IF Connects(type) /\ ~connected
           THEN /\ factoryErr' = "ConnectError"
                /\ UNCHANGED <<sessionType, transport>>
           ELSE /\ sessionType' = type
                /\ transport' = (type = "SecureShell")
                /\ UNCHANGED factoryErr
        /\ UNCHANGED <<selfEnv, defCheckXc, defWait, callVars, chanVars, threadVars,
                       resultVars, probeVars, unameRan, callXVars, expectedEnv, uri,
                       xferVars,
                   twoVars>>

\* Before construction: the arguments of Shell() are chosen, no session exists.
FactoryInit ==
    /\ uri \in Uris
    /\ sessionType = "none"
    /\ factoryErr = "none"
    /\ selfEnv \in ComposeEnvs
    /\ \E f \in SessionFlags : defCheckXc = f[1] /\ defWait = f[2]
    /\ transport = FALSE
    /\ CallInit
    /\ present = {}
    /\ ProbeInit
    /\ expectedEnv = selfEnv
    /\ XferNone

FactoryNext ==
    \/ \E connected \in BOOLEAN : Shell(connected)
    \/ Disconnect

FactorySpec == FactoryInit /\ [][FactoryNext]_vars

\* --------------------------------------------------------------- claim C14
\* C14: the factory selects the session type from the URI scheme alone: no
\* URI or 'local' gives a LocalShell, 'ssh' a SecureShell, 'serial' a
\* SerialShell; any other scheme raises RuntimeError and no session is built.
C14_FactoryByScheme ==
    LET done == sessionType # "none" \/ factoryErr # "none"
        is(scheme) == uri # None /\ uri[1][1] = scheme
        gives(type) == /\ sessionType \in {"none", type}
                       /\ factoryErr # "RuntimeError"
                       /\ factoryErr = "none" => sessionType = type
    IN  done =>
           /\ (uri = None \/ is("local")) => gives("LocalShell") /\ factoryErr = "none"
           /\ is("ssh") => gives("SecureShell")
           /\ is("serial") => gives("SerialShell")
           /\ (uri # None /\ uri[1][1] \notin {"local", "ssh", "serial"}) =>
                 sessionType = "none" /\ factoryErr = "RuntimeError"

\* Shell() was called with a scheme it does not know and raised.
C14_Witness ==
    /\ uri # None /\ uri[1][1] = "telnet"
    /\ factoryErr = "RuntimeError"
    /\ sessionType = "none"

\* --------------------------------------------------------------- claim C16
\* C16: over any sequence of OS detections on a session, `uname -s` is
\* executed at most once: once a detection has ended, whatever its outcome, the
\* cached OS type is one of linux, darwin, unknown, and a detection after one
\* that executed the probe executes no command.
C16_UnameAtMostOnce ==
    lastOp.op = "detect_os" =>
        /\ osType \in {Some("linux"), Some("darwin"), Some("unknown")}
        /\ lastOp.ranBefore => lastOp.probes = 0

\* --------------------------------------------------------------- claim C17
\* C17: without a transport, execute_command raises SecureShellException
\* before any channel is opened: no queue is created, no reader and no watcher
\* is started, no result is returned.
C17_NoTransportNothingStarted ==
    (pc = "failed" /\ err = SecureShellException("Could not get transport from SSH client.")) =>
        /\ ~chanOpen
        /\ sent = None
        /\ queue = <<>>
        /\ rdOut = "none" /\ rdErr = "none" /\ wpc = "none"
        /\ ~result

\* A call on a disconnected session has failed.
C17_Witness ==
    /\ ~transport
    /\ pc = "failed"
    /\ err = SecureShellException("Could not get transport from SSH client.")
    /\ cmd # ""

\* ------------------------------------------- two commands side by side
\* A record with the command whose thread put it.
Owned(c, r) == [owner |-> c, fd |-> r.fd, kind |-> r.kind, val |-> r.val]

\* One queue on the session that every command's threads would share.
SessionQueue(c) == "c1"

\* queue = Queue(): a local of the invocation; the queue is named after the
\* command whose execute_command created it.
QueueOf(c) == c

\* SecureShell.execute_command for command c on a connected session: the queue,
\* the two readers, the watcher and the result, all given that queue.
Dispatch(c) ==
    /\ transport
    /\ threads[c] = NoThreads
    /\ threads' = [threads EXCEPT ![c] = [q |-> QueueOf(c), rdOut |-> "running",
                                          rdErr |-> "running", wpc |-> "recv",
                                          outRead |-> 0]]
    /\ results' = [results EXCEPT ![c] = [q |-> QueueOf(c), got |-> <<>>,
                                          resolved |-> FALSE]]
    /\ UNCHANGED <<sessionVars, callVars, chanVars, threadVars, resultVars, probeVars,
                   unameRan, callXVars, expectedEnv, factoryVars, xferVars, queues>>

\* The stdout reader of c reads a line and puts it on the queue it was given.
TwoReaderOutLine(c) ==
    /\ threads[c].rdOut = "running"
    /\ threads[c].outRead < MaxErr
    /\ threads' = [threads EXCEPT ![c].outRead = @ + 1]
    /\ queues' = [queues EXCEPT ![threads[c].q] =
                     Put(@, Owned(c, OutRec(threads[c].outRead + 1)))]
    /\ UNCHANGED <<sessionVars, callVars, chanVars, threadVars, resultVars, probeVars,
                   unameRan, callXVars, expectedEnv, factoryVars, xferVars, results>>

\* The stdout reader of c meets end of file and ends.
TwoReaderOutEof(c) ==
    /\ threads[c].rdOut = "running"
    /\ threads[c].outRead = MaxErr
    /\ threads' = [threads EXCEPT ![c].rdOut = "done"]
    /\ UNCHANGED <<sessionVars, callVars, chanVars, threadVars, resultVars, probeVars,
                   unameRan, callXVars, expectedEnv, factoryVars, xferVars, queues,
                   results>>

\* The stderr reader of c, whose stream is empty, meets end of file and ends.
TwoReaderErrEof(c) ==
    /\ threads[c].rdErr = "running"
    /\ threads' = [threads EXCEPT ![c].rdErr = "done"]
    /\ UNCHANGED <<sessionVars, callVars, chanVars, threadVars, resultVars, probeVars,
                   unameRan, callXVars, expectedEnv, factoryVars, xferVars, queues,
                   results>>

\* The watcher of c: queue.put( (0, chan.recv_exit_status()) )
TwoWatcherPutExitCode(c, code) ==
    /\ threads[c].wpc = "recv"
    /\ threads' = [threads EXCEPT ![c].wpc = "end"]
    /\ queues' = [queues EXCEPT ![threads[c].q] = Put(@, Owned(c, XcRec(code)))]
    /\ UNCHANGED <<sessionVars, callVars, chanVars, threadVars, resultVars, probeVars,
                   unameRan, callXVars, expectedEnv, factoryVars, xferVars, results>>

\* The watcher of c: queue.put( (0, None) )
TwoWatcherPutEnd(c) ==
    /\ threads[c].wpc = "end"
    /\ threads' = [threads EXCEPT ![c].wpc = "done"]
    /\ queues' = [queues EXCEPT ![threads[c].q] = Put(@, Owned(c, EndRec))]
    /\ UNCHANGED <<sessionVars, callVars, chanVars, threadVars, resultVars, probeVars,
                   unameRan, callXVars, expectedEnv, factoryVars, xferVars, results>>

\* The result of c takes the next record off the queue it was given.
TwoDrain(c) ==
    /\ results[c].q # "none"
    /\ ~results[c].resolved
    /\ queues[results[c].q] # <<>>
    /\ LET r == Head(queues[results[c].q])
       IN  results' = [results EXCEPT ![c].got = Append(@, r),
                                      ![c].resolved = IsEnd(r)]
    /\ queues' = [queues EXCEPT ![results[c].q] = Tail(@)]
    /\ UNCHANGED <<sessionVars, callVars, chanVars, threadVars, resultVars, probeVars,
                   unameRan, callXVars, expectedEnv, factoryVars, xferVars, threads>>

TwoNext ==
    \/ \E c \in Cmds : Dispatch(c)
    \/ \E c \in Cmds : TwoReaderOutLine(c)
    \/ \E c \in Cmds : TwoReaderOutEof(c)
    \/ \E c \in Cmds : TwoReaderErrEof(c)
    \/ \E c \in Cmds, code \in ExitCodes : TwoWatcherPutExitCode(c, code)
    \/ \E c \in Cmds : TwoWatcherPutEnd(c)
    \/ \E c \in Cmds : TwoDrain(c)

TwoSpec == LiveInit /\ [][TwoNext]_vars

\* --------------------------------------------------------------- claim C18
\* C18: every execute_command creates its own queue, and its readers and its
\* watcher put only on that queue: of two commands dispatched on one session,
\* in any interleaving, no record of one is delivered to the result of the
\* other.
C18_NoCrossDelivery ==
    /\ \A c \in Cmds, d \in Cmds :
          (c # d /\ threads[c].q # "none") => threads[c].q # threads[d].q
    /\ \A c \in Cmds : threads[c].q = results[c].q
    /\ \A q \in Cmds : \A i \in 1..Len(queues[q]) :
          threads[queues[q][i].owner].q = q
    /\ \A c \in Cmds : \A i \in 1..Len(results[c].got) : results[c].got[i].owner = c

\* Both results are resolved, each with every record of its command, and the
\* two commands did not deliver the same.
C18_Witness ==
    /\ \A c \in Cmds : results[c].resolved /\ Len(results[c].got) = MaxErr + 2
    /\ results["c1"].got[MaxErr + 1].val # results["c2"].got[MaxErr + 1].val

====
